---- MODULE Spec2Model ----
(***************************************************************************)
(* Model of the meal search of boilergains (src/protein.py): the           *)
(* eligibility filter, the protein-density ranking, the pairing rules      *)
(* with difflib's fuzzy match, the tolerance relaxation loop, the          *)
(* deduplication and the selection of alternatives.                        *)
(*                                                                         *)
(* Text is a sequence of one-character strings, so that lower(), strip(),  *)
(* split() and the substring test are computed, not assumed.  Numbers are  *)
(* integers: a tolerance is counted in hundredths (10 stands for 0.10)     *)
(* and a score is the exact fraction num/den, so comparisons of scores     *)
(* and of tolerance bands are exact.                                       *)
(***************************************************************************)
EXTENDS Integers, Sequences, FiniteSets

VARIABLES
    pairings_file,   \* content of pairings.json on disk
    pc,              \* position of the call: "idle", "search", "select", "done"
    args,            \* arguments of the running call of suggest_meal
    names,           \* ranked working set (names of the top_k candidates)
    PAIRS,           \* pairing table resolved by the call
    pairs_mapping,   \* FALSE when json.load returned something that is no dict
    tier,            \* index into tolerances of the next pass (1..3)
    tried,           \* tolerances whose pass has run, in order
    best,            \* <<>> for None, <<sol>> for the best-so-far of the loop
    solutions,       \* accepted pool
    all_candidates,  \* all-candidates pool
    result,          \* <<>> for None, <<sol>> for the returned Solution
    raised,          \* TRUE when the call ended with an exception
    copying,         \* <<>>, or <<old, new>> while shutil.copy writes pairings.json
    alone,           \* what pairings.json holds for the call with no copy under way
    peer,            \* a second caller of suggest_meal
    response,        \* HTTP status of the last /suggest request, 0 for none
    verdict          \* <<>>, or <<b>> for what pairs_ok returned for names

vars == <<pairings_file, pc, args, names, PAIRS, pairs_mapping, tier, tried,
          best, solutions, all_candidates, result, raised, copying, alone, peer,
          response, verdict>>

-----------------------------------------------------------------------------
(* Text helpers: str.lower, str.strip, the `in` substring test, str.split  *)

UpperToLower ==
    [A |-> "a", B |-> "b", C |-> "c", D |-> "d", E |-> "e", F |-> "f",
     G |-> "g", H |-> "h", I |-> "i", J |-> "j", K |-> "k", L |-> "l",
     M |-> "m", N |-> "n", O |-> "o", P |-> "p", Q |-> "q", R |-> "r",
     S |-> "s", T |-> "t", U |-> "u", V |-> "v", W |-> "w", X |-> "x",
     Y |-> "y", Z |-> "z"]

lower(s) ==
    [i \in 1..Len(s) |->
        IF s[i] \in DOMAIN UpperToLower THEN UpperToLower[s[i]] ELSE s[i]]

IsSpace(c) == c = " "

RECURSIVE lstrip(_)
lstrip(s) ==
    IF s # <<>> /\ IsSpace(Head(s)) THEN lstrip(Tail(s)) ELSE s

RECURSIVE rstrip(_)
rstrip(s) ==
    IF s # <<>> /\ IsSpace(s[Len(s)])
    THEN rstrip(SubSeq(s, 1, Len(s) - 1))
    ELSE s

strip(s) == rstrip(lstrip(s))

\* Python's `sub in s` on strings
Contains(sub, s) ==
    \E i \in 0..(Len(s) - Len(sub)) : \A k \in 1..Len(sub) : s[i + k] = sub[k]

\* s.replace('-', ' ')
ReplaceHyphen(s) == [i \in 1..Len(s) |-> IF s[i] = "-" THEN " " ELSE s[i]]

\* the set of words of s.split(): the maximal runs of non-space characters;
\* word is the run being read, found the words read so far
RECURSIVE SplitWords(_, _, _)
SplitWords(s, word, found) ==
    LET done == IF word = <<>> THEN found ELSE found \cup {word}
    IN  IF s = <<>> THEN done
        ELSE IF IsSpace(Head(s)) THEN SplitWords(Tail(s), <<>>, done)
        ELSE SplitWords(Tail(s), Append(word, Head(s)), found)

Words(s) == SplitWords(s, <<>>, {})

Min(x, y) == IF x < y THEN x ELSE y
Max(x, y) == IF x > y THEN x ELSE y
Abs(x) == IF x < 0 THEN -x ELSE x

RECURSIVE Concat(_)
Concat(ss) == IF ss = <<>> THEN <<>> ELSE Head(ss) \o Concat(Tail(ss))

-----------------------------------------------------------------------------
(* Tables of the program *)

EXCLUSION_TOKEN_MAP ==
  <<
     <<<<"b", "e", "e", "f">>,
       <<<<"b", "e", "e", "f">>,
         <<"m", "e", "a", "t">>,
         <<"h", "a", "m", "b", "u", "r", "g", "e", "r">>,
         <<"b", "u", "r", "g", "e", "r">>,
         <<"s", "a", "u", "s", "a", "g", "e">>,
         <<"p", "e", "p", "p", "e", "r", "o", "n", "i">>,
         <<"p", "e", "p", "e", "r", "o", "n", "i">>>>>>,
     <<<<"p", "o", "r", "k">>,
       <<<<"p", "o", "r", "k">>,
         <<"h", "a", "m">>>>>>,
     <<<<"c", "h", "i", "c", "k", "e", "n">>,
       <<<<"c", "h", "i", "c", "k", "e", "n">>>>>>,
     <<<<"t", "u", "r", "k", "e", "y">>,
       <<<<"t", "u", "r", "k", "e", "y">>>>>>,
     <<<<"l", "a", "m", "b">>,
       <<<<"l", "a", "m", "b">>>>>>,
     <<<<"f", "i", "s", "h">>,
       <<<<"f", "i", "s", "h">>>>>>,
     <<<<"s", "e", "a", "f", "o", "o", "d">>,
       <<<<"s", "e", "a", "f", "o", "o", "d">>>>>>,
     <<<<"s", "h", "e", "l", "l", "f", "i", "s", "h">>,
       <<<<"s", "h", "e", "l", "l", "f", "i", "s", "h">>,
         <<"s", "h", "r", "i", "m", "p">>,
         <<"c", "r", "a", "b">>,
         <<"l", "o", "b", "s", "t", "e", "r">>,
         <<"c", "l", "a", "m">>,
         <<"o", "y", "s", "t", "e", "r">>,
         <<"s", "c", "a", "l", "l", "o", "p">>>>>>,
     <<<<"m", "i", "l", "k">>,
       <<<<"m", "i", "l", "k">>,
         <<"d", "a", "i", "r", "y">>,
         <<"c", "h", "e", "e", "s", "e">>,
         <<"c", "r", "e", "a", "m">>,
         <<"b", "u", "t", "t", "e", "r">>,
         <<"y", "o", "g", "u", "r", "t">>>>>>,
     <<<<"e", "g", "g">>,
       <<<<"e", "g", "g">>,
         <<"e", "g", "g", "s">>>>>>
  >>

DEFAULT_PAIRS ==
  <<
     <<<<"h", "a", "m", "b", "u", "r", "g", "e", "r">>,
       <<<<"b", "u", "n">>,
         <<"b", "r", "e", "a", "d">>,
         <<"r", "o", "l", "l">>,
         <<"f", "r", "i", "e", "s">>>>>>,
     <<<<"b", "u", "r", "g", "e", "r">>,
       <<<<"b", "u", "n">>,
         <<"b", "r", "e", "a", "d">>,
         <<"r", "o", "l", "l">>,
         <<"f", "r", "i", "e", "s">>>>>>,
     <<<<"h", "o", "t", " ", "d", "o", "g">>,
       <<<<"b", "u", "n">>,
         <<"k", "e", "t", "c", "h", "u", "p">>,
         <<"m", "u", "s", "t", "a", "r", "d">>>>>>,
     <<<<"t", "a", "c", "o">>,
       <<<<"s", "h", "e", "l", "l">>,
         <<"t", "o", "r", "t", "i", "l", "l", "a">>,
         <<"s", "a", "l", "s", "a">>>>>>,
     <<<<"c", "h", "i", "c", "k", "e", "n">>,
       <<<<"r", "i", "c", "e">>,
         <<"s", "a", "l", "a", "d">>,
         <<"w", "r", "a", "p">>,
         <<"b", "r", "e", "a", "d">>>>>>,
     <<<<"s", "t", "e", "a", "k">>,
       <<<<"p", "o", "t", "a", "t", "o">>,
         <<"r", "i", "c", "e">>,
         <<"s", "a", "l", "a", "d">>>>>>,
     <<<<"y", "o", "g", "u", "r", "t">>,
       <<<<"g", "r", "a", "n", "o", "l", "a">>,
         <<"b", "e", "r", "r", "i", "e", "s">>,
         <<"f", "r", "u", "i", "t">>>>>>,
     <<<<"g", "r", "a", "n", "o", "l", "a">>,
       <<<<"y", "o", "g", "u", "r", "t">>,
         <<"m", "i", "l", "k">>,
         <<"b", "e", "r", "r", "i", "e", "s">>>>>>,
     <<<<"o", "a", "t", "m", "e", "a", "l">>,
       <<<<"m", "i", "l", "k">>,
         <<"b", "e", "r", "r", "i", "e", "s">>,
         <<"b", "a", "n", "a", "n", "a">>>>>>,
     <<<<"p", "a", "n", "c", "a", "k", "e">>,
       <<<<"s", "y", "r", "u", "p">>,
         <<"b", "u", "t", "t", "e", "r">>>>>>,
     <<<<"e", "g", "g", "s">>,
       <<<<"t", "o", "a", "s", "t">>,
         <<"b", "a", "c", "o", "n">>,
         <<"s", "a", "u", "s", "a", "g", "e">>>>>>,
     <<<<"b", "a", "c", "o", "n">>,
       <<<<"e", "g", "g", "s">>,
         <<"t", "o", "a", "s", "t">>>>>>,
     <<<<"s", "a", "l", "a", "d">>,
       <<<<"d", "r", "e", "s", "s", "i", "n", "g">>,
         <<"b", "r", "e", "a", "d">>,
         <<"c", "h", "i", "c", "k", "e", "n">>,
         <<"t", "o", "f", "u">>>>>>,
     <<<<"r", "i", "c", "e">>,
       <<<<"c", "h", "i", "c", "k", "e", "n">>,
         <<"b", "e", "a", "n", "s">>,
         <<"t", "o", "f", "u">>>>>>,
     <<<<"b", "e", "a", "n", "s">>,
       <<<<"r", "i", "c", "e">>,
         <<"t", "o", "r", "t", "i", "l", "l", "a">>>>>>,
     <<<<"p", "i", "z", "z", "a">>,
       <<<<"b", "r", "e", "a", "d">>,
         <<"c", "h", "e", "e", "s", "e">>>>>>,
     <<<<"s", "u", "s", "h", "i">>,
       <<<<"s", "o", "y">>,
         <<"w", "a", "s", "a", "b", "i">>,
         <<"g", "i", "n", "g", "e", "r">>>>>>,
     <<<<"b", "a", "g", "e", "l">>,
       <<<<"c", "r", "e", "a", "m", " ", "c", "h", "e", "e", "s", "e">>,
         <<"l", "o", "x">>,
         <<"b", "u", "t", "t", "e", "r">>>>>>
  >>

\* SequenceMatcher cutoff of get_close_matches, as the fraction CutoffNum/CutoffDen
CutoffNum == 4
CutoffDen == 5

\* calories from which a lead item needs no companion
SubstantialCalories == 400

\* protein per serving above which an item is capped at one serving
HighProtein == 20

-----------------------------------------------------------------------------
(* expand_excluded_items *)

MappedTokens(key) ==
    LET hits == SelectSeq(EXCLUSION_TOKEN_MAP, LAMBDA row : row[1] = key)
    IN  IF hits = <<>> THEN <<key>> ELSE hits[1][2]

RECURSIVE Unique(_, _)
Unique(tokens, seen) ==
    IF tokens = <<>> THEN <<>>
    ELSE IF Head(tokens) \in seen THEN Unique(Tail(tokens), seen)
    ELSE <<Head(tokens)>> \o Unique(Tail(tokens), seen \cup {Head(tokens)})

\* an expansion that keeps every token of every entry, repeated ones too
expand_keeping_duplicates(selected) ==
    LET keys   == [i \in 1..Len(selected) |-> lower(strip(selected[i]))]
        kept   == SelectSeq(keys, LAMBDA k : k # <<>>)
    IN  Concat([i \in 1..Len(kept) |-> MappedTokens(kept[i])])

expand_excluded_items(selected) ==
    LET keys   == [i \in 1..Len(selected) |-> lower(strip(selected[i]))]
        kept   == SelectSeq(keys, LAMBDA k : k # <<>>)
        tokens == Concat([i \in 1..Len(kept) |-> MappedTokens(kept[i])])
    IN  Unique(tokens, {})

-----------------------------------------------------------------------------
(* _filter_candidates.  An allergen of None and one of '' behave alike     *)
(* (line 167), and so do excluded_meats of None and of [] (line 168):      *)
(* both are the empty sequence here.                                       *)

\* a filter that compares the allergen as typed, without lowercasing it
ExcludedCaseSensitive(info, vegan, allergen, excluded_meats) ==
    LET lname == lower(info.name)
        a     == lower(info.allergens)
        al    == strip(allergen)
        ex    == [i \in 1..Len(excluded_meats) |-> lower(excluded_meats[i])]
    IN  \/ vegan /\ ~info.vegan
        \/ al # <<>> /\ Contains(al, a)
        \/ \E i \in 1..Len(ex) : Contains(ex[i], lname) \/ Contains(ex[i], a)

Excluded(info, vegan, allergen, excluded_meats) ==
    LET lname == lower(info.name)
        a     == lower(info.allergens)
        al    == lower(strip(allergen))
        ex    == [i \in 1..Len(excluded_meats) |-> lower(excluded_meats[i])]
    IN  \/ vegan /\ ~info.vegan
        \/ al # <<>> /\ Contains(al, a)
        \/ \E i \in 1..Len(ex) : Contains(ex[i], lname) \/ Contains(ex[i], a)

\* a filter that ignores vegan_only
_filter_ignoring_vegan(foods, vegan, allergen, excluded_meats) ==
    SelectSeq(foods, LAMBDA info : ~Excluded(info, FALSE, allergen, excluded_meats))

_filter_candidates(foods, vegan, allergen, excluded_meats) ==
    SelectSeq(foods, LAMBDA info : ~Excluded(info, vegan, allergen, excluded_meats))

-----------------------------------------------------------------------------
(* Ranking by protein density (suggest_meal, lines 210-220) *)

\* `info.get('calories', 0.0) or 1.0`
\* the macro values of an item count 1/scale kcal and 1/scale g: 1 unless
\* the workbook gives the item values that are no whole numbers
Scale(info) == IF "scale" \in DOMAIN info THEN info.scale ELSE 1

\* line 214: info.get('calories', 0.0) or 1.0
DensityCalories(info) == IF info.calories = 0 THEN Scale(info) ELSE info.calories

\* protein/calories of a is greater than that of b (calories are positive)
DenserThan(a, b) ==
    a.protein * DensityCalories(b) > b.protein * DensityCalories(a)

\* list.sort(key=density, reverse=True): stable, so x goes after every
\* element that is at least as dense
RECURSIVE InsertByDensity(_, _)
InsertByDensity(sorted, x) ==
    IF sorted = <<>> THEN <<x>>
    ELSE IF DenserThan(x, Head(sorted)) THEN <<x>> \o sorted
    ELSE <<Head(sorted)>> \o InsertByDensity(Tail(sorted), x)

RECURSIVE SortByDensity(_, _)
SortByDensity(todo, sorted) ==
    IF todo = <<>> THEN sorted
    ELSE SortByDensity(Tail(todo), InsertByDensity(sorted, Head(todo)))

\* the slice seq[:k]
Prefix(seq, k) ==
    IF k >= 0
    THEN SubSeq(seq, 1, IF k < Len(seq) THEN k ELSE Len(seq))
    ELSE SubSeq(seq, 1, IF Len(seq) + k > 0 THEN Len(seq) + k ELSE 0)

RankedNames(candidates, top_k) ==
    LET scored == Prefix(SortByDensity(candidates, <<>>), top_k)
    IN  [i \in 1..Len(scored) |-> scored[i].name]

\* foods[name]: names are the keys of the catalog
Info(foods, name) ==
    LET i == CHOOSE i \in 1..Len(foods) : foods[i].name = name IN foods[i]

-----------------------------------------------------------------------------
(* difflib.get_close_matches(companion, words, n=1, cutoff=0.8): a word    *)
(* matches when SequenceMatcher(a=word, b=companion).ratio() >= cutoff;    *)
(* real_quick_ratio and quick_ratio are upper bounds of ratio and filter   *)
(* nothing more.  ratio = 2*M/T, M the size of the matching blocks.        *)

RECURSIVE CommonPrefix(_, _, _, _, _, _)
CommonPrefix(a, b, i, j, ahi, bhi) ==
    IF i > ahi \/ j > bhi THEN 0
    ELSE IF a[i] # b[j] THEN 0
    ELSE 1 + CommonPrefix(a, b, i + 1, j + 1, ahi, bhi)

\* the longest block of a[alo..ahi] and b[blo..bhi]: of the longest ones
\* the one that starts earliest in a, and of those earliest in b
find_longest_match(a, b, alo, ahi, blo, bhi) ==
    LET starts == (alo..ahi) \X (blo..bhi)
        size   == [p \in starts |-> CommonPrefix(a, b, p[1], p[2], ahi, bhi)]
        Earlier(p, q) == p[1] < q[1] \/ (p[1] = q[1] /\ p[2] <= q[2])
    IN  IF starts = {} THEN <<alo, blo, 0>>
        ELSE LET bestsize == CHOOSE k \in { size[p] : p \in starts } :
                                 \A q \in starts : size[q] <= k
                 longest  == { p \in starts : size[p] = bestsize }
                 p        == CHOOSE p \in longest : \A q \in longest : Earlier(p, q)
             IN  <<p[1], p[2], bestsize>>

RECURSIVE MatchingSize(_, _, _, _, _, _)
MatchingSize(a, b, alo, ahi, blo, bhi) ==
    LET m == find_longest_match(a, b, alo, ahi, blo, bhi)
    IN  IF m[3] = 0 THEN 0
        ELSE m[3]
             + MatchingSize(a, b, alo, m[1] - 1, blo, m[2] - 1)
             + MatchingSize(a, b, m[1] + m[3], ahi, m[2] + m[3], bhi)

\* _calculate_ratio(matches, length) >= cutoff
RatioAtLeastCutoff(matches, length) ==
    IF length = 0 THEN TRUE
    ELSE 2 * matches * CutoffDen >= CutoffNum * length

Count(s, c) == Cardinality({ i \in 1..Len(s) : s[i] = c })

RECURSIVE SumOver(_, _, _, _)
SumOver(chars, a, b, sum) ==
    IF chars = {} THEN sum
    ELSE LET c == CHOOSE c \in chars : TRUE
         IN  SumOver(chars \ {c}, a, b, sum + Min(Count(a, c), Count(b, c)))

\* the three tests of get_close_matches, cheapest first
CloseMatch(word, companion) ==
    LET length == Len(word) + Len(companion)
    IN  /\ RatioAtLeastCutoff(Min(Len(word), Len(companion)), length)
        /\ RatioAtLeastCutoff(
               SumOver({ word[i] : i \in 1..Len(word) }, word, companion, 0), length)
        /\ RatioAtLeastCutoff(
               MatchingSize(word, companion, 1, Len(word), 1, Len(companion)), length)

companion_present(lower_combo, companion) ==
    \/ \E i \in 1..Len(lower_combo) : Contains(companion, lower_combo[i])
    \/ \E i \in 1..Len(lower_combo) :
          \E w \in Words(ReplaceHyphen(lower_combo[i])) : CloseMatch(w, companion)

-----------------------------------------------------------------------------
(* pairs_ok: every lead of the table found in the combination needs a      *)
(* companion, or an item holding the lead with calories >= 400.            *)

\* `next((n for n in foods if n.lower() == item), None)` and its calories
Substantial(foods, item) ==
    LET same == SelectSeq(foods, LAMBDA info : lower(info.name) = item)
    IN  same # <<>> /\ same[1].calories >= SubstantialCalories

\* a rule that wants the companion in an item other than those holding
\* the lead
RuleHoldsByAnotherItem(foods, lower_combo, rule) ==
    LET key        == rule[1]
        companions == rule[2]
        others     == SelectSeq(lower_combo, LAMBDA item : ~Contains(key, item))
    IN  (\E i \in 1..Len(lower_combo) : Contains(key, lower_combo[i]))
        => \/ \E c \in 1..Len(companions) :
                  companion_present(others, companions[c])
           \/ \E i \in 1..Len(lower_combo) :
                  /\ Contains(key, lower_combo[i])
                  /\ Substantial(foods, lower_combo[i])

RuleHolds(foods, lower_combo, rule) ==
    LET key        == rule[1]
        companions == rule[2]
    IN  (\E i \in 1..Len(lower_combo) : Contains(key, lower_combo[i]))
        => \/ \E c \in 1..Len(companions) :
                  companion_present(lower_combo, companions[c])
           \/ \E i \in 1..Len(lower_combo) :
                  /\ Contains(key, lower_combo[i])
                  /\ Substantial(foods, lower_combo[i])

pairs_ok(foods, table, combo) ==
    LET lower_combo == [i \in 1..Len(combo) |-> lower(combo[i])]
    IN  \A r \in 1..Len(table) : RuleHolds(foods, lower_combo, table[r])

-----------------------------------------------------------------------------
(* Serving ranges (lines 298-307) *)

\* a cap that forgets the high-protein rule
max_servings_uncapped(info, max_servings) == Max(1, max_servings)

max_servings_for_item(info, max_servings) ==
    LET base == IF info.protein > HighProtein THEN Min(max_servings, 1)
                ELSE max_servings
    IN  Max(1, base)

\* serving counts that start at 0
serving_values_from_zero(info, max_servings) ==
    [i \in 1..(max_servings_for_item(info, max_servings) + 1) |-> i - 1]

serving_values_for_item(info, max_servings) ==
    [i \in 1..max_servings_for_item(info, max_servings) |-> i]

-----------------------------------------------------------------------------
(* Enumeration order of itertools.combinations and itertools.product *)

RECURSIVE Combinations(_, _)
Combinations(seq, r) ==
    IF r = 0 THEN << <<>> >>
    ELSE IF Len(seq) < r THEN <<>>
    ELSE LET with == Combinations(Tail(seq), r - 1)
         IN  [i \in 1..Len(with) |-> <<Head(seq)>> \o with[i]]
             \o Combinations(Tail(seq), r)

RECURSIVE Product(_)
Product(ranges) ==
    IF ranges = <<>> THEN << <<>> >>
    ELSE LET rest == Product(Tail(ranges))
             first == Head(ranges)
         IN  Concat([i \in 1..Len(first) |->
                        [j \in 1..Len(rest) |-> <<first[i]>> \o rest[j]]])

-----------------------------------------------------------------------------
(* One serving assignment (lines 337-373) *)

\* a score that divides by the goal as it is
ScoreDividedByGoal(total_cal, total_pro, calorie_goal, protein_goal) ==
    [num |-> Abs(total_cal - calorie_goal) * protein_goal
             + Abs(total_pro - protein_goal) * calorie_goal,
     den |-> calorie_goal * protein_goal]

\* a score is the fraction num/den with den > 0
Score(total_cal, total_pro, calorie_goal, protein_goal) ==
    LET cd  == IF calorie_goal = 0 THEN 1 ELSE calorie_goal
        pd  == IF protein_goal = 0 THEN 1 ELSE protein_goal
        num == Abs(total_cal - calorie_goal) * pd + Abs(total_pro - protein_goal) * cd
        den == cd * pd
    IN  IF den < 0 THEN [num |-> -num, den |-> -den] ELSE [num |-> num, den |-> den]

\* the scores of one call share their denominator
ScoreLess(s, t) ==
    IF s.den = t.den THEN s.num < t.num ELSE s.num * t.den < t.num * s.den

\* goal*(1 - tol) <= total <= goal*(1 + tol), tol in hundredths
InBand(total, goal, tol) ==
    /\ goal * (100 - tol) <= total * 100
    /\ total * 100 <= goal * (100 + tol)

\* a running sum that misses the last item of the combination
RECURSIVE AccumulateButLast(_, _, _, _)
AccumulateButLast(foods, combo, servings, macro) ==
    IF Len(combo) <= 1 THEN 0
    ELSE Info(foods, Head(combo))[macro] * Head(servings)
         + AccumulateButLast(foods, Tail(combo), Tail(servings), macro)

\* the running sum `total += info.get(macro) * qty` over zip(combo, servings)
RECURSIVE Accumulate(_, _, _, _)
Accumulate(foods, combo, servings, macro) ==
    IF combo = <<>> THEN 0
    ELSE Info(foods, Head(combo))[macro] * Head(servings)
         + Accumulate(foods, Tail(combo), Tail(servings), macro)

\* a Solution that records the base tolerance in place of the tier's
RecordedBaseTolerance(a, tol) == a.tolerance

\* line 370: 'tolerance_used': tol
RecordedTolerance(a, tol) == tol

Assignment(a, combo, servings, tol) ==
    LET total_cal == Accumulate(a.foods, combo, servings, "calories")
        total_pro == Accumulate(a.foods, combo, servings, "protein")
    IN  [items            |-> [i \in 1..Len(combo) |-> <<combo[i], servings[i]>>],
         total_calories   |-> total_cal,
         total_protein    |-> total_pro,
         total_fat        |-> Accumulate(a.foods, combo, servings, "fat"),
         total_carbs      |-> Accumulate(a.foods, combo, servings, "carbs"),
         total_fiber      |-> Accumulate(a.foods, combo, servings, "fiber"),
         tolerance_used   |-> RecordedTolerance(a, tol),
         score            |-> Score(total_cal, total_pro, a.calorie_goal, a.protein_goal),
         within_tolerance |-> /\ InBand(total_cal, a.calorie_goal, tol)
                              /\ InBand(total_pro, a.protein_goal, tol)]

-----------------------------------------------------------------------------
(* One pass of the relaxation loop (lines 314-381) *)

\* an enumeration that also takes the combinations of max_items + 1 names
CombosOneLarger(ranked, max_items) ==
    Concat([r \in 1..Min(max_items + 1, Len(ranked)) |-> Combinations(ranked, r)])

\* the combinations of 1..max_items names, in the order the loops visit them
Combos(ranked, max_items) ==
    Concat([r \in 1..Min(max_items, Len(ranked)) |-> Combinations(ranked, r)])

ServingRanges(a, combo) ==
    [i \in 1..Len(combo) |->
        serving_values_for_item(Info(a.foods, combo[i]), a.max_servings)]

\* lines 337-352: the serving assignments one pass computes totals for,
\* before pairs_ok is asked: <<combo, servings>> in the order of the loops
Evaluated(a, ranked) ==
    LET combos == Combos(ranked, a.max_items)
        OfCombo(combo) ==
            LET servings == Product(ServingRanges(a, combo))
            IN  [k \in 1..Len(servings) |-> <<combo, servings[k]>>]
    IN  Concat([c \in 1..Len(combos) |-> OfCombo(combos[c])])

\* a pass that scores every combination, the rejected ones too
SearchPassOfEveryCombo(a, ranked, table, tol) ==
    LET combos == Combos(ranked, a.max_items)
        OfCombo(combo) ==
            LET servings == Product(ServingRanges(a, combo))
            IN  [k \in 1..Len(servings) |-> Assignment(a, combo, servings[k], tol)]
    IN  Concat([c \in 1..Len(combos) |-> OfCombo(combos[c])])

\* the Solutions one pass appends to all_candidates, in order
SearchPass(a, ranked, table, tol) ==
    LET combos == Combos(ranked, a.max_items)
        OfCombo(combo) ==
            IF pairs_ok(a.foods, table, combo)
            THEN LET servings == Product(ServingRanges(a, combo))
                 IN  [k \in 1..Len(servings) |-> Assignment(a, combo, servings[k], tol)]
            ELSE <<>>
    IN  Concat([c \in 1..Len(combos) |-> OfCombo(combos[c])])

\* `if score < best_score: best = sol` over the accepted Solutions of a pass
RECURSIVE LoopBest(_, _)
LoopBest(accepted, b) ==
    IF accepted = <<>> THEN b
    ELSE IF b = <<>> \/ ScoreLess(Head(accepted).score, b[1].score)
         THEN LoopBest(Tail(accepted), <<Head(accepted)>>)
         ELSE LoopBest(Tail(accepted), b)

-----------------------------------------------------------------------------
(* Deduplication and selection (lines 309-312, 385-425) *)

\* sorted(name for name, _ in items): the names of one Solution are distinct
\* catalog keys, so two sorted tuples are equal exactly when the sets are
_solution_signature(entry) == { entry.items[i][1] : i \in 1..Len(entry.items) }

\* best_by_sig keeps the position of the first entry of each signature and
\* replaces the entry by one of strictly lower score
RECURSIVE _dedupeKeepFirst(_, _)
RECURSIVE _dedupe(_, _)

\* a dedupe that keeps the first Solution of each signature
_dedupeKeepFirst(entries, kept) ==
    IF entries = <<>> THEN kept
    ELSE LET e == Head(entries)  sig == _solution_signature(e)
             at == { i \in 1..Len(kept) : _solution_signature(kept[i]) = sig }
         IN  IF at = {} THEN _dedupeKeepFirst(Tail(entries), Append(kept, e))
             ELSE _dedupeKeepFirst(Tail(entries), kept)

_dedupe(entries, kept) ==
    IF entries = <<>> THEN kept
    ELSE LET e   == Head(entries)
             sig == _solution_signature(e)
             at  == { i \in 1..Len(kept) : _solution_signature(kept[i]) = sig }
         IN  IF at = {} THEN _dedupe(Tail(entries), Append(kept, e))
             ELSE LET i == CHOOSE i \in at : TRUE
                  IN  IF ScoreLess(e.score, kept[i].score)
                      THEN _dedupe(Tail(entries), [kept EXCEPT ![i] = e])
                      ELSE _dedupe(Tail(entries), kept)

\* a sort that puts the highest score first
RECURSIVE InsertByScoreDescending(_, _)
InsertByScoreDescending(sorted, x) ==
    IF sorted = <<>> THEN <<x>>
    ELSE IF ScoreLess(Head(sorted).score, x.score) THEN <<x>> \o sorted
    ELSE <<Head(sorted)>> \o InsertByScoreDescending(Tail(sorted), x)

\* sorted(pool, key=score): stable, ascending
RECURSIVE InsertByScore(_, _)
InsertByScore(sorted, x) ==
    IF sorted = <<>> THEN <<x>>
    ELSE IF ScoreLess(x.score, Head(sorted).score) THEN <<x>> \o sorted
    ELSE <<Head(sorted)>> \o InsertByScore(Tail(sorted), x)

RECURSIVE SortByScore(_, _)

\* a pool left in the order of the search
SortLeavingOrder(todo, sorted) == sorted \o todo

SortByScore(todo, sorted) ==
    IF todo = <<>> THEN sorted
    ELSE SortByScore(Tail(todo), InsertByScore(sorted, Head(todo)))

\* a pool without the fallback to all_candidates
PoolOfAccepted(sols, alls) == SortByScore(_dedupe(sols, <<>>), <<>>)

\* the pool best and the alternatives are taken from
Pool(sols, alls) ==
    LET s == _dedupe(sols, <<>>)
    IN  IF s # <<>> THEN SortByScore(s, <<>>)
        ELSE SortByScore(_dedupe(alls, <<>>), <<>>)

\* a walk that does not look at the protein window
RECURSIVE AlternativesAnyProtein(_, _, _, _, _)
AlternativesAnyProtein(a, pool, i, alternatives, seen_signatures) ==
    IF i > Len(pool) THEN alternatives
    ELSE LET sol == pool[i]
             sig == _solution_signature(sol)
         IN  IF i = 1 \/ sig \in seen_signatures
             THEN AlternativesAnyProtein(a, pool, i + 1, alternatives, seen_signatures)
             ELSE LET more == Append(alternatives, sol)
                  IN  IF Len(more) >= a.max_alternatives THEN more
                      ELSE AlternativesAnyProtein(a, pool, i + 1, more,
                                                  seen_signatures \cup {sig})

\* the walk over pool[i..] (lines 411-422); pool[1] is best and is skipped
RECURSIVE Alternatives(_, _, _, _, _)
Alternatives(a, pool, i, alternatives, seen_signatures) ==
    IF i > Len(pool) THEN alternatives
    ELSE LET sol == pool[i]
             sig == _solution_signature(sol)
         IN  IF \/ i = 1
                \/ sig \in seen_signatures
                \/ Abs(sol.total_protein - pool[1].total_protein) > a.protein_window
             THEN Alternatives(a, pool, i + 1, alternatives, seen_signatures)
             ELSE LET more == Append(alternatives, sol)
                  IN  IF Len(more) >= a.max_alternatives THEN more
                      ELSE Alternatives(a, pool, i + 1, more,
                                        seen_signatures \cup {sig})

\* best['alternatives'] = alternatives
WithAlternatives(sol, alternatives) ==
    [items            |-> sol.items,
     total_calories   |-> sol.total_calories,
     total_protein    |-> sol.total_protein,
     total_fat        |-> sol.total_fat,
     total_carbs      |-> sol.total_carbs,
     total_fiber      |-> sol.total_fiber,
     tolerance_used   |-> sol.tolerance_used,
     score            |-> sol.score,
     within_tolerance |-> sol.within_tolerance,
     alternatives     |-> alternatives]

-----------------------------------------------------------------------------
(* Inputs: catalogs as load_foods_from_excel returns them (a dict in       *)
(* insertion order, one entry per name), goals, filters, search parameters *)

Food(name, calories, protein, fat, carbs, fiber, vegan, allergens) ==
    [name |-> name, calories |-> calories, protein |-> protein, fat |-> fat,
     carbs |-> carbs, fiber |-> fiber, vegan |-> vegan, allergens |-> allergens]

\* an item whose values are counted in 1/scale kcal and 1/scale g
ScaledFood(name, scale, calories, protein) ==
    [name |-> name, scale |-> scale, calories |-> calories, protein |-> protein,
     fat |-> 0, carbs |-> 0, fiber |-> 0, vegan |-> TRUE, allergens |-> <<>>]

\* 0.5 kcal and 0.1 g protein per serving
Broth        == ScaledFood(<<"B","r","o","t","h">>, 10, 5, 1)
\* 0 kcal and 0.2 g protein per serving
Tea          == ScaledFood(<<"T","e","a">>, 10, 0, 2)
Chicken      == Food(<<"C","h","i","c","k","e","n">>, 200, 30, 5, 0, 0, FALSE, <<>>)
Rice         == Food(<<"R","i","c","e">>, 200, 4, 1, 44, 1, TRUE, <<>>)
Tofu         == Food(<<"T","o","f","u">>, 210, 30, 12, 5, 2, TRUE, <<"S","o","y">>)
Seitan       == Food(<<"S","e","i","t","a","n">>, 190, 33, 3, 8, 1, TRUE,
                     <<"W","h","e","a","t">>)
Tempeh       == Food(<<"T","e","m","p","e","h">>, 200, 28, 11, 9, 4, TRUE, <<"S","o","y">>)
Lentils      == Food(<<"L","e","n","t","i","l","s">>, 180, 12, 1, 30, 8, TRUE, <<>>)
Hamburger    == Food(<<"H","a","m","b","u","r","g","e","r">>, 450, 25, 22, 35, 2, FALSE,
                     <<"W","h","e","a","t",","," ","M","i","l","k">>)
ChickenSalad == Food(<<"C","h","i","c","k","e","n"," ","S","a","l","a","d">>,
                     300, 28, 14, 10, 3, FALSE, <<"E","g","g">>)
YogurtCup    == Food(<<"Y","o","g","u","r","t"," ","C","u","p">>, 150, 12, 4, 17, 0, FALSE,
                     <<"M","i","l","k">>)
ItemA        == Food(<<"I","t","e","m","A">>, 100, 10, 2, 8, 1, FALSE, <<>>)

Catalogs ==
    { <<Chicken, Rice>>,
      <<ItemA>>,
      <<Tofu, Seitan, Tempeh, Lentils>>,
      <<Hamburger, ChickenSalad, YogurtCup, Rice>> }

\* (calorie_goal, protein_goal)
Goals ==
    { <<400, 34>>, <<600, 44>>, <<400, 46>>, <<200, 30>>, <<0, 30>>, <<200, 0>> }

\* (vegan, allergen, excluded_meats)
Filters ==
    { <<FALSE, <<>>, <<>>>>,
      <<TRUE, <<>>, <<>>>>,
      <<FALSE, <<" ","M","I","L","K"," ">>, <<>>>>,
      <<FALSE, <<>>, << <<"b","e","e","f">> >> >> }

\* tolerance in hundredths
Tolerances == { 10 }

MaxItems        == 2
MaxServings     == 2
MaxTopK         == 3
MaxAlternatives == 2

\* (protein_window, max_alternatives)
Selections ==
    { <<10, 0>>, <<10, 1>>, <<10, MaxAlternatives>>, <<2, MaxAlternatives>> }

Inputs ==
    { [foods            |-> foods,
       calorie_goal     |-> goal[1],
       protein_goal     |-> goal[2],
       vegan            |-> filter[1],
       allergen         |-> filter[2],
       excluded_meats   |-> filter[3],
       tolerance        |-> tolerance,
       max_items        |-> max_items,
       max_servings     |-> max_servings,
       top_k            |-> top_k,
       protein_window   |-> selection[1],
       max_alternatives |-> selection[2]] :
         foods \in Catalogs, goal \in Goals, filter \in Filters,
         tolerance \in Tolerances, max_items \in {1, MaxItems},
         max_servings \in {1, MaxServings}, top_k \in {MaxTopK - 1, MaxTopK},
         selection \in Selections }

\* the table of a pairings.json that holds {"chicken": ["salad"]}
ChickenSaladPairs ==
    << << <<"c","h","i","c","k","e","n">>, << <<"s","a","l","a","d">> >> >> >>

\* the table of a pairings.json that holds a valid mapping
CustomPairs ==
    << << <<"c","h","i","c","k","e","n">>, << <<"r","i","c","e">> >> >> >>

\* what the CLI may copy over pairings.json: text that is no JSON, a JSON
\* mapping, JSON that is no mapping (a list)
PairingFiles == { "unparsable", "mapping", "notmapping" }

-----------------------------------------------------------------------------
(* State machine *)

NoArgs == [foods |-> <<>>]

Idle ==
    /\ pc = "idle"
    /\ args = NoArgs
    /\ names = <<>>
    /\ PAIRS = <<>>
    /\ pairs_mapping = TRUE
    /\ tier = 1
    /\ tried = <<>>
    /\ best = <<>>
    /\ solutions = <<>>
    /\ all_candidates = <<>>
    /\ result = <<>>
    /\ raised = FALSE
    /\ alone = {}

PeerIdle == [pc |-> "idle"]

Init ==
    /\ pairings_file = "missing"
    /\ copying = <<>>
    /\ peer = PeerIdle
    /\ response = 0
    /\ verdict = <<>>
    /\ Idle

\* main, lines 565-574: shutil.copy(pairings_path, 'pairings.json')
SwapPairings(content) ==
    /\ pc = "idle"
    /\ copying = <<>>
    /\ pairings_file' = content
    /\ UNCHANGED <<pc, args, names, PAIRS, pairs_mapping, tier, tried, best,
                   solutions, all_candidates, result, raised, copying, alone,
                   peer, response, verdict>>

\* lines 222-248: json.load of pairings.json, the built-in table on any exception
LoadedPairs(file) == IF file = "mapping" THEN CustomPairs ELSE DEFAULT_PAIRS

LoadedIsMapping(file) == file # "notmapping"

\* line 289: tolerances = [tolerance, tolerance * 2, tolerance * 3]
tolerances(a) == <<a.tolerance, a.tolerance * 2, a.tolerance * 3>>

\* a loop that runs every tier
LoopEndsAfterLastTier(b, t) == t = 3

\* lines 382-383: `if best: break`, or the tolerances are used up
LoopEnds(b, t) == b # <<>> \/ t = 3

\* the contents a call can find in pairings.json when no copy is under way:
\* the file as it is, or as it was before or will be after the copy
Settled ==
    IF copying = <<>> THEN {pairings_file} ELSE {copying[1], copying[2]}

\* a call that writes the density it ranks by into the items of the catalog
CallStoringDensity(a) ==
    /\ pc = "idle"
    /\ args' = [a EXCEPT !.foods =
                   [i \in 1..Len(a.foods) |->
                       [f \in DOMAIN a.foods[i] \cup {"protein_density"} |->
                           IF f = "protein_density"
                           THEN <<a.foods[i].protein, DensityCalories(a.foods[i])>>
                           ELSE a.foods[i][f]]]]
    /\ alone' = Settled
    /\ LET candidates ==
               _filter_candidates(a.foods, a.vegan, a.allergen, a.excluded_meats)
       IN  IF candidates = <<>>
           THEN /\ pc' = "done"
                /\ UNCHANGED <<names, PAIRS, pairs_mapping>>
           ELSE /\ pc' = "search"
                /\ names' = RankedNames(candidates, a.top_k)
                /\ PAIRS' = LoadedPairs(pairings_file)
                /\ pairs_mapping' = LoadedIsMapping(pairings_file)
    /\ UNCHANGED <<pairings_file, tier, tried, best, solutions, all_candidates,
                   result, raised, copying, peer, response, verdict>>

\* suggest_meal, lines 206-295: filter, rank, load the table, set up the loop
Call(a) ==
    /\ pc = "idle"
    /\ args' = a
    /\ alone' = Settled
    /\ LET candidates ==
               _filter_candidates(a.foods, a.vegan, a.allergen, a.excluded_meats)
       IN  IF candidates = <<>>
           THEN /\ pc' = "done"
                /\ UNCHANGED <<names, PAIRS, pairs_mapping>>
           ELSE /\ pc' = "search"
                /\ names' = RankedNames(candidates, a.top_k)
                /\ PAIRS' = LoadedPairs(pairings_file)
                /\ pairs_mapping' = LoadedIsMapping(pairings_file)
    /\ UNCHANGED <<pairings_file, tier, tried, best, solutions, all_candidates,
                   result, raised, copying, peer, response, verdict>>

\* one iteration of `for tol in tolerances` (lines 314-383); PAIRS.items()
\* raises AttributeError at the first assignment when PAIRS is no dict
SearchTier ==
    /\ pc = "search"
    /\ LET tol == tolerances(args)[tier]
       IN  /\ tried' = Append(tried, tol)
           /\ IF ~pairs_mapping /\ Combos(names, args.max_items) # <<>>
              THEN /\ raised' = TRUE
                   /\ pc' = "done"
                   /\ UNCHANGED <<tier, best, solutions, all_candidates>>
              ELSE LET pass     == SearchPass(args, names, PAIRS, tol)
                       accepted == SelectSeq(pass, LAMBDA s : s.within_tolerance)
                       b        == LoopBest(accepted, best)
                   IN  /\ all_candidates' = all_candidates \o pass
                       /\ solutions' = solutions \o accepted
                       /\ best' = b
                       /\ IF LoopEnds(b, tier)
                          THEN pc' = "select" /\ tier' = tier
                          ELSE pc' = "search" /\ tier' = tier + 1
                       /\ UNCHANGED raised
    /\ UNCHANGED <<pairings_file, args, names, PAIRS, pairs_mapping, result,
                   copying, alone, peer,
                   response, verdict>>

\* lines 385-425: dedupe, pick best, collect the alternatives, return
Select ==
    /\ pc = "select"
    /\ LET pool == Pool(solutions, all_candidates)
       IN  result' =
               IF pool = <<>> THEN <<>>
               ELSE << WithAlternatives(pool[1],
                          Alternatives(args, pool, 1, <<>>,
                                       {_solution_signature(pool[1])})) >>
    /\ pc' = "done"
    /\ UNCHANGED <<pairings_file, args, names, PAIRS, pairs_mapping, tier, tried,
                   best, solutions, all_candidates, raised, copying, alone, peer,
                   response, verdict>>

\* the caller takes the result; nothing of the call survives it
Return ==
    /\ pc = "done"
    /\ pc' = "idle"
    /\ args' = NoArgs
    /\ names' = <<>>
    /\ PAIRS' = <<>>
    /\ pairs_mapping' = TRUE
    /\ tier' = 1
    /\ tried' = <<>>
    /\ best' = <<>>
    /\ solutions' = <<>>
    /\ all_candidates' = <<>>
    /\ result' = <<>>
    /\ raised' = FALSE
    /\ alone' = {}
    /\ UNCHANGED <<pairings_file, copying, peer, response, verdict>>

Next ==
    \/ pc = "idle" /\ \E content \in PairingFiles : SwapPairings(content)
    \/ pc = "idle" /\ \E a \in Inputs : Call(a)
    \/ SearchTier
    \/ Select
    \/ Return

Spec == Init /\ [][Next]_vars

-----------------------------------------------------------------------------
(* Several callers.  suggest_meal keeps everything in locals; what two     *)
(* calls share is pairings.json, which the CLI overwrites with             *)
(* shutil.copy: the copy truncates the file and then writes it, and a      *)
(* call that opens the file in between reads a part of it.                 *)

\* what the main call hands back
Outcome == [raised |-> raised, result |-> result]

\* the loop of lines 314-383 run to its end: <<solutions, all_candidates>>
RECURSIVE RelaxationLoop(_, _, _, _, _, _, _)
RelaxationLoop(a, ranked, table, t, b, sols, alls) ==
    LET pass     == SearchPass(a, ranked, table, tolerances(a)[t])
        accepted == SelectSeq(pass, LAMBDA s : s.within_tolerance)
        nb       == LoopBest(accepted, b)
    IN  IF LoopEnds(nb, t)
        THEN <<sols \o accepted, alls \o pass>>
        ELSE RelaxationLoop(a, ranked, table, t + 1, nb,
                            sols \o accepted, alls \o pass)

\* a whole call of suggest_meal that reads content from pairings.json
suggest_meal(a, content) ==
    LET candidates ==
            _filter_candidates(a.foods, a.vegan, a.allergen, a.excluded_meats)
        ranked == RankedNames(candidates, a.top_k)
    IN  IF candidates = <<>> THEN [raised |-> FALSE, result |-> <<>>]
        ELSE IF ~LoadedIsMapping(content) /\ Combos(ranked, a.max_items) # <<>>
        THEN [raised |-> TRUE, result |-> <<>>]
        ELSE LET pools == RelaxationLoop(a, ranked, LoadedPairs(content), 1,
                                         <<>>, <<>>, <<>>)
                 pool  == Pool(pools[1], pools[2])
             IN  [raised |-> FALSE,
                  result |->
                     IF pool = <<>> THEN <<>>
                     ELSE << WithAlternatives(pool[1],
                                Alternatives(a, pool, 1, <<>>,
                                             {_solution_signature(pool[1])})) >>]

\* shutil.copy, lines 565-574: open('pairings.json', 'wb') empties the file
BeginCopy(content) ==
    /\ copying = <<>>
    /\ copying' = <<pairings_file, content>>
    /\ pairings_file' = "partial"
    /\ UNCHANGED <<pc, args, names, PAIRS, pairs_mapping, tier, tried, best,
                   solutions, all_candidates, result, raised, alone, peer,
                   response, verdict>>

\* shutil.copy: the last byte is written
EndCopy ==
    /\ copying # <<>>
    /\ pairings_file' = copying[2]
    /\ copying' = <<>>
    /\ UNCHANGED <<pc, args, names, PAIRS, pairs_mapping, tier, tried, best,
                   solutions, all_candidates, result, raised, alone, peer,
                   response, verdict>>

\* the second caller enters suggest_meal and reads pairings.json (lines
\* 206-248); later: the main call had handed back its result by then
PeerCall(a) ==
    /\ peer.pc = "idle"
    /\ peer' = [pc    |-> "search",
                args  |-> a,
                read  |-> pairings_file,
                alone |-> Settled,
                later |-> pc = "done"]
    /\ UNCHANGED <<pairings_file, pc, args, names, PAIRS, pairs_mapping, tier,
                   tried, best, solutions, all_candidates, result, raised,
                   copying, alone, response, verdict>>

\* the second caller's search and selection (lines 289-425), all in locals
PeerFinish ==
    /\ peer.pc = "search"
    /\ peer' = [pc      |-> "done",
                args    |-> peer.args,
                read    |-> peer.read,
                alone   |-> peer.alone,
                later   |-> peer.later,
                outcome |-> suggest_meal(peer.args, peer.read)]
    /\ UNCHANGED <<pairings_file, pc, args, names, PAIRS, pairs_mapping, tier,
                   tried, best, solutions, all_candidates, result, raised,
                   copying, alone, response, verdict>>

PeerReturn ==
    /\ peer.pc = "done"
    /\ peer' = PeerIdle
    /\ UNCHANGED <<pairings_file, pc, args, names, PAIRS, pairs_mapping, tier,
                   tried, best, solutions, all_candidates, result, raised,
                   copying, alone, response, verdict>>

\* calls whose result depends on the pairing table
CallerInputs ==
    { a \in Inputs :
        /\ a.foods = <<Chicken, Rice>>
        /\ <<a.calorie_goal, a.protein_goal>> \in { <<200, 30>>, <<400, 34>> }
        /\ ~a.vegan /\ a.allergen = <<>> /\ a.excluded_meats = <<>>
        /\ a.max_items = MaxItems /\ a.max_servings = MaxServings
        /\ a.top_k = MaxTopK
        /\ a.protein_window = 10 /\ a.max_alternatives = MaxAlternatives }

\* the pairing files the CLI is pointed at while calls run
CopySources == { "mapping" }

NextCallers ==
    \/ copying = <<>> /\ \E content \in CopySources : BeginCopy(content)
    \/ EndCopy
    \/ pc = "idle" /\ \E a \in CallerInputs : Call(a)
    \/ SearchTier
    \/ Select
    \/ Return
    \/ peer.pc = "idle" /\ \E a \in CallerInputs : PeerCall(a)
    \/ PeerFinish
    \/ PeerReturn

SpecCallers == Init /\ [][NextCallers]_vars

-----------------------------------------------------------------------------
(* The ranking alone (lines 206-220), on catalogs that hold items of less  *)
(* than 1 kcal per serving.                                                *)

\* the defaults of suggest_meal (lines 195-197)
DefaultTolerance      == 10
DefaultMaxItems       == 4
DefaultMaxServings    == 3
DefaultTopK           == 10
DefaultProteinWindow  == 10
DefaultMaxAlternatives == 5

RankedItems == { Chicken, Rice, ItemA, Broth, Tea }

\* three different items in any order
RankedCatalogs ==
    { cat \in { <<a, b, c>> : a, b, c \in RankedItems } :
        cat[1] # cat[2] /\ cat[1] # cat[3] /\ cat[2] # cat[3] }

RankingInputs ==
    { [foods            |-> foods,
       calorie_goal     |-> 400,
       protein_goal     |-> 34,
       vegan            |-> vegan,
       allergen         |-> <<>>,
       excluded_meats   |-> <<>>,
       tolerance        |-> DefaultTolerance,
       max_items        |-> 1,
       max_servings     |-> 1,
       top_k            |-> top_k,
       protein_window   |-> DefaultProteinWindow,
       max_alternatives |-> 0] :
         foods \in RankedCatalogs, vegan \in BOOLEAN, top_k \in 1..MaxTopK }

\* lines 206-220: candidates, scored, scored[:top_k], names
Rank(a) ==
    /\ pc = "idle"
    /\ pc' = "ranked"
    /\ args' = a
    /\ names' = RankedNames(_filter_candidates(a.foods, a.vegan, a.allergen,
                                               a.excluded_meats), a.top_k)
    /\ UNCHANGED <<pairings_file, PAIRS, pairs_mapping, tier, tried, best,
                   solutions, all_candidates, result, raised, copying, alone,
                   peer, response, verdict>>

\* the working set is dropped
Unrank ==
    /\ pc = "ranked"
    /\ pc' = "idle"
    /\ args' = NoArgs
    /\ names' = <<>>
    /\ UNCHANGED <<pairings_file, PAIRS, pairs_mapping, tier, tried, best,
                   solutions, all_candidates, result, raised, copying, alone,
                   peer, response, verdict>>

NextRanking ==
    \/ \E a \in RankingInputs : Rank(a)
    \/ Unrank

SpecRanking == Init /\ [][NextRanking]_vars

-----------------------------------------------------------------------------
(* pairs_ok alone (lines 251-286), on combinations of catalogs with names  *)
(* that hold a lead, come close to a companion, or differ only in case.    *)

Slider      == Food(<<"B","u","r","g","e","r"," ","S","l","i","d","e","r">>,
                    250, 14, 12, 20, 1, FALSE, <<>>)
\* "bred" is within the cutoff of "bread" and holds no companion
BredStick   == Food(<<"B","r","e","d","-","S","t","i","c","k">>,
                    120, 3, 2, 22, 1, TRUE, <<>>)
\* "ban" is not within the cutoff of "bun"
BanMi       == Food(<<"B","a","n"," ","M","i">>, 350, 18, 10, 40, 2, FALSE, <<>>)
BigBurger   == Food(<<"B","u","r","g","e","r">>, 450, 25, 22, 35, 2, FALSE, <<>>)
SmallBurger == Food(<<"b","u","r","g","e","r">>, 100, 6, 5, 8, 0, FALSE, <<>>)

PairCatalogs ==
    { <<Chicken, Rice, ChickenSalad, YogurtCup, Tofu>>,
      <<Hamburger, Slider, BredStick, BanMi, Rice>>,
      <<BigBurger, SmallBurger, Rice>> }

\* the names of foods at the places of S, in the order of foods
NamesAt(foods, S) ==
    LET picked == SelectSeq([i \in 1..Len(foods) |-> i], LAMBDA i : i \in S)
    IN  [k \in 1..Len(picked) |-> foods[picked[k]].name]

\* line 355: pairs_ok(combo) for a combination of names of the catalog
Pair(foods, table, combo) ==
    /\ pc = "idle"
    /\ pc' = "paired"
    /\ args' = [foods |-> foods]
    /\ PAIRS' = table
    /\ names' = combo
    /\ verdict' = << pairs_ok(foods, table, combo) >>
    /\ UNCHANGED <<pairings_file, pairs_mapping, tier, tried, best, solutions,
                   all_candidates, result, raised, copying, alone, peer,
                   response>>

\* the verdict is used and dropped
Unpair ==
    /\ pc = "paired"
    /\ pc' = "idle"
    /\ args' = NoArgs
    /\ PAIRS' = <<>>
    /\ names' = <<>>
    /\ verdict' = <<>>
    /\ UNCHANGED <<pairings_file, pairs_mapping, tier, tried, best, solutions,
                   all_candidates, result, raised, copying, alone, peer,
                   response>>

NextPairs ==
    \/ \E foods \in PairCatalogs,
          table \in { DEFAULT_PAIRS, CustomPairs, ChickenSaladPairs } :
          \E S \in (SUBSET (1..Len(foods))) \ {{}} :
              Pair(foods, table, NamesAt(foods, S))
    \/ Unpair

SpecPairs == Init /\ [][NextPairs]_vars

-----------------------------------------------------------------------------
(* Calls at the edges of the search parameters: top_k, max_items and       *)
(* max_servings of 0 and 1 as well as the largest values.                  *)

EdgeInputs ==
    { [foods            |-> foods,
       calorie_goal     |-> goal[1],
       protein_goal     |-> goal[2],
       vegan            |-> FALSE,
       allergen         |-> <<>>,
       excluded_meats   |-> <<>>,
       tolerance        |-> 10,
       max_items        |-> max_items,
       max_servings     |-> max_servings,
       top_k            |-> top_k,
       protein_window   |-> 10,
       max_alternatives |-> MaxAlternatives] :
         foods \in { <<Chicken, Rice>>, <<Tofu, Seitan, Tempeh, Lentils>> },
         goal \in { <<400, 34>>, <<200, 30>>, <<230, 34>> },
         max_items \in {0, 1, MaxItems},
         max_servings \in {0, 1, MaxServings},
         top_k \in {0, 1, MaxTopK} }

NextEdges ==
    \/ \E a \in EdgeInputs : Call(a)
    \/ SearchTier
    \/ Select
    \/ Return

SpecEdges == Init /\ [][NextEdges]_vars

-----------------------------------------------------------------------------
(* expand_excluded_items alone, on selections as the UI sends them, and on *)
(* its own output.                                                         *)

\* longest selection
MaxSelected == 3

\* what one entry of a selection may be: a category, a category typed with
\* capitals and blanks around it, a token of a category, an unknown word,
\* an empty and a blank entry
SelectedEntries ==
    { <<"b", "e", "e", "f">>,
      <<" ", "B", "e", "e", "f", " ">>,
      <<"m", "e", "a", "t">>,
      <<"p", "o", "r", "k">>,
      <<"h", "a", "m">>,
      <<"T", "o", "f", "u">>,
      <<>>,
      <<" ">> }

RECURSIVE SeqsUpTo(_, _)
SeqsUpTo(S, n) ==
    IF n = 0 THEN { <<>> }
    ELSE LET shorter == SeqsUpTo(S, n - 1)
         IN  shorter \cup { Append(q, x) : q \in shorter, x \in S }

UISelections == SeqsUpTo(SelectedEntries, MaxSelected)

\* lines 21-43: expand_excluded_items(selected)
Expand(selected) ==
    /\ pc = "idle"
    /\ pc' = "expanded"
    /\ args' = [selected |-> selected]
    /\ names' = expand_excluded_items(selected)
    /\ UNCHANGED <<pairings_file, PAIRS, pairs_mapping, tier, tried, best,
                   solutions, all_candidates, result, raised, copying, alone,
                   peer, response, verdict>>

\* expand_excluded_items applied to the list it returned
ExpandAgain ==
    /\ pc = "expanded"
    /\ args' = [selected |-> names]
    /\ names' = expand_excluded_items(names)
    /\ UNCHANGED <<pairings_file, pc, PAIRS, pairs_mapping, tier, tried, best,
                   solutions, all_candidates, result, raised, copying, alone,
                   peer, response, verdict>>

\* the token list is used and dropped
Unexpand ==
    /\ pc = "expanded"
    /\ pc' = "idle"
    /\ args' = NoArgs
    /\ names' = <<>>
    /\ UNCHANGED <<pairings_file, PAIRS, pairs_mapping, tier, tried, best,
                   solutions, all_candidates, result, raised, copying, alone,
                   peer, response, verdict>>

NextExpand ==
    \/ \E selected \in UISelections : Expand(selected)
    \/ ExpandAgain
    \/ Unexpand

SpecExpand == Init /\ [][NextExpand]_vars

-----------------------------------------------------------------------------
(* The /suggest handler of src/app.py.  A numeric field of the request is  *)
(* <<n>> when float() turns it into n and <<>> when float() raises.        *)

\* the workbooks on the server: what load_foods_from_excel returns for a
\* path, <<>> for a file it raises on; a path outside the domain does not
\* exist
Workbooks ==
    [ windsor     |-> << <<Chicken, Rice>> >>,
      hillenbrand |-> << <<Hamburger, ChickenSalad, YogurtCup, Rice>> >>,
      broken      |-> <<>> ]

Requests ==
    { [path         |-> path,
       calorie_goal |-> calorie_goal,
       protein_goal |-> protein_goal,
       carbs_goal   |-> carbs_goal,
       vegan        |-> vegan,
       allergen     |-> allergen] :
         path \in { "windsor", "hillenbrand", "broken", "absent" },
         calorie_goal \in { <<400>>, <<0>>, <<-400>>, <<>> },
         protein_goal \in { <<34>>, <<-34>> },
         carbs_goal \in { <<0>>, <<>> },
         vegan \in BOOLEAN,
         allergen \in { <<>>, <<"m","i","l","k">> } }

\* lines 45-52: every goal field goes through float()
Numeric(req) ==
    req.calorie_goal # <<>> /\ req.protein_goal # <<>> /\ req.carbs_goal # <<>>

\* line 66: suggest_meal(foods, calorie_goal, protein_goal, vegan=vegan,
\* allergen=allergen)
HandlerCall(req) ==
    [foods            |-> Workbooks[req.path][1],
     calorie_goal     |-> req.calorie_goal[1],
     protein_goal     |-> req.protein_goal[1],
     vegan            |-> req.vegan,
     allergen         |-> req.allergen,
     excluded_meats   |-> <<>>,
     tolerance        |-> DefaultTolerance,
     max_items        |-> DefaultMaxItems,
     max_servings     |-> DefaultMaxServings,
     top_k            |-> DefaultTopK,
     protein_window   |-> DefaultProteinWindow,
     max_alternatives |-> DefaultMaxAlternatives]

\* suggest(), lines 38-66: 400 for a goal that is no number or a path that
\* does not exist, 500 for a workbook that does not load, the call of
\* suggest_meal otherwise
HttpSuggest(req) ==
    /\ pc = "idle"
    /\ response = 0
    /\ IF ~Numeric(req) \/ req.path \notin DOMAIN Workbooks
       THEN /\ response' = 400
            /\ UNCHANGED <<pairings_file, pc, args, names, PAIRS, pairs_mapping,
                           tier, tried, best, solutions, all_candidates, result,
                           raised, copying, alone, peer,
                           verdict>>
       ELSE IF Workbooks[req.path] = <<>>
       THEN /\ response' = 500
            /\ UNCHANGED <<pairings_file, pc, args, names, PAIRS, pairs_mapping,
                           tier, tried, best, solutions, all_candidates, result,
                           raised, copying, alone, peer,
                           verdict>>
       ELSE Call(HandlerCall(req))

\* lines 67-80: 200 with the meal or with 'No suitable meal found.', 500 for
\* an exception of suggest_meal
HttpRespond ==
    /\ pc = "done"
    /\ response' = IF raised THEN 500 ELSE 200
    /\ pc' = "idle"
    /\ args' = NoArgs
    /\ names' = <<>>
    /\ PAIRS' = <<>>
    /\ pairs_mapping' = TRUE
    /\ tier' = 1
    /\ tried' = <<>>
    /\ best' = <<>>
    /\ solutions' = <<>>
    /\ all_candidates' = <<>>
    /\ result' = <<>>
    /\ raised' = FALSE
    /\ alone' = {}
    /\ UNCHANGED <<pairings_file, copying, peer,
                           verdict>>

\* the client has its response
HttpDeliver ==
    /\ response # 0
    /\ response' = 0
    /\ UNCHANGED <<pairings_file, pc, args, names, PAIRS, pairs_mapping, tier,
                   tried, best, solutions, all_candidates, result, raised,
                   copying, alone, peer,
                           verdict>>

\* the pairings.json the server may be left with
ServerPairings == { "unparsable", "notmapping" }

NextHttp ==
    \/ pc = "idle" /\ \E content \in ServerPairings : SwapPairings(content)
    \/ pc = "idle" /\ \E req \in Requests : HttpSuggest(req)
    \/ SearchTier
    \/ Select
    \/ HttpRespond
    \/ HttpDeliver

SpecHttp == Init /\ [][NextHttp]_vars

-----------------------------------------------------------------------------
(* Properties.  They are stated over the state a call leaves behind, with  *)
(* sums and bands written out here rather than taken from the operators    *)
(* above.                                                                  *)

Returned == pc = "done" /\ ~raised /\ result # <<>>

\* best and its alternatives
Produced ==
    IF Returned
    THEN {result[1]} \cup { result[1].alternatives[i] :
                              i \in 1..Len(result[1].alternatives) }
    ELSE {}

RECURSIVE SetSum(_, _)
SetSum(S, f) ==
    IF S = {} THEN 0
    ELSE LET x == CHOOSE x \in S : TRUE IN f[x] + SetSum(S \ {x}, f)

NameSet == { names[i] : i \in 1..Len(names) }

Cap(name) ==
    IF Info(args.foods, name).protein > 20 THEN 1
    ELSE IF args.max_servings < 1 THEN 1 ELSE args.max_servings

\* the serving assignments of the search space: a set of 1..max_items names
\* of the working set, a serving count of 1..cap for each, accepted by the
\* pairing rules; an assignment is a function from its names to the counts
Admissible ==
    UNION { { q \in [S -> 1..Max(1, args.max_servings)] :
                \A n \in S : q[n] <= Cap(n) } :
            S \in { T \in SUBSET NameSet :
                      /\ T # {}
                      /\ Cardinality(T) <= args.max_items
                      /\ pairs_ok(args.foods, PAIRS,
                                  SelectSeq(names, LAMBDA n : n \in T)) } }

TotalOf(q, macro) ==
    SetSum(DOMAIN q, [n \in DOMAIN q |-> Info(args.foods, n)[macro] * q[n]])

\* goal*(1 - t/100) <= total <= goal*(1 + t/100)
Within(total, goal, t) ==
    goal * (100 - t) <= 100 * total /\ 100 * total <= goal * (100 + t)

AssignmentWithin(q, t) ==
    /\ Within(TotalOf(q, "calories"), args.calorie_goal, t)
    /\ Within(TotalOf(q, "protein"), args.protein_goal, t)

\* the divisor of a goal in the score: 1 in place of a goal of 0
Divisor(goal) == IF goal = 0 THEN 1 ELSE goal

\* |dcal|/goal_cal + |dpro|/goal_pro as a fraction over
\* ScoreDen = goal_cal*goal_pro: its numerator
ScoreNumOf(q) ==
    Abs(TotalOf(q, "calories") - args.calorie_goal) * Divisor(args.protein_goal)
    + Abs(TotalOf(q, "protein") - args.protein_goal) * Divisor(args.calorie_goal)

ScoreDen == Divisor(args.calorie_goal) * Divisor(args.protein_goal)

\* goals below 0 are turned away before the call
GoalsNotNegative == args.calorie_goal >= 0 /\ args.protein_goal >= 0

\* the scenario of the specification: Chicken(200, 30) and Rice(200, 4),
\* goal (400, 34), tolerance 0.1, max_items 2, max_servings 1, no filter
SimpleScenario ==
    /\ pc = "done" /\ ~raised
    /\ args.foods = <<Chicken, Rice>>
    /\ args.calorie_goal = 400 /\ args.protein_goal = 34
    /\ args.tolerance = 10 /\ args.max_items = 2 /\ args.max_servings = 1
    /\ ~args.vegan /\ args.allergen = <<>> /\ args.excluded_meats = <<>>

\* C1: a returned Solution that is within tolerance has a score no higher
\* than that of any admissible assignment that is within tolerance at the
\* returned tier; in the simple scenario the result is Chicken x1, Rice x1
\* with totals (400, 34) and score 0.
C1_BestIsMinimal ==
    /\ (Returned /\ result[1].within_tolerance /\ GoalsNotNegative) =>
          /\ result[1].score.den = ScoreDen
          /\ \A q \in Admissible :
                AssignmentWithin(q, result[1].tolerance_used)
                   => result[1].score.num <= ScoreNumOf(q)
    /\ SimpleScenario =>
          /\ result # <<>>
          /\ result[1].items = << <<Chicken.name, 1>>, <<Rice.name, 1>> >>
          /\ result[1].total_calories = 400
          /\ result[1].total_protein = 34
          /\ result[1].score.num = 0
          /\ result[1].within_tolerance

\* a within-tolerance result that beat another admissible assignment which
\* is within tolerance at the same tier
C1_Witness ==
    /\ Returned /\ result[1].within_tolerance /\ GoalsNotNegative
    /\ \E q \in Admissible :
          /\ AssignmentWithin(q, result[1].tolerance_used)
          /\ result[1].score.num < ScoreNumOf(q)

\* C2: every Solution produced (best and each alternative) that is marked
\* within tolerance has calories and protein inside
\* [goal*(1 - tier), goal*(1 + tier)] for the tier recorded on it.
C2_ToleranceContainment ==
    \A sol \in Produced :
        sol.within_tolerance =>
            /\ Within(sol.total_calories, args.calorie_goal, sol.tolerance_used)
            /\ Within(sol.total_protein, args.protein_goal, sol.tolerance_used)

\* a result accepted at a relaxed tier, outside the band of the base tolerance
C2_Witness ==
    /\ Returned /\ result[1].within_tolerance
    /\ result[1].tolerance_used > args.tolerance
    /\ ~ /\ Within(result[1].total_calories, args.calorie_goal, args.tolerance)
         /\ Within(result[1].total_protein, args.protein_goal, args.tolerance)

\* tolerances of the passes run so far are the first ones of t, 2t, 3t
TriedInOrder ==
    /\ Len(tried) <= 3
    /\ \A i \in 1..Len(tried) : tried[i] = i * args.tolerance

\* C3: the passes run at t, 2t, 3t in that order and stop at the first tier
\* with an accepted Solution: no pass runs after a tier at which some
\* admissible assignment is within tolerance, and the tier recorded on a
\* within-tolerance result is the smallest such tier.
C3_RelaxationStopsAtFirstTier ==
    (pc # "idle" /\ ~raised) =>
        /\ TriedInOrder
        /\ \A i \in 1..(Len(tried) - 1) :
              \A q \in Admissible : ~AssignmentWithin(q, tried[i])
        /\ (Returned /\ result[1].within_tolerance) =>
              /\ result[1].tolerance_used = tried[Len(tried)]
              /\ \E q \in Admissible : AssignmentWithin(q, result[1].tolerance_used)

\* a call that stopped after the second pass with an accepted result
C3_Witness ==
    /\ Returned /\ result[1].within_tolerance
    /\ tried = <<args.tolerance, 2 * args.tolerance>>

\* C4: for every Solution produced and every macro, the recorded total is
\* the sum over its items of the catalog's per-serving value times the
\* item's quantity.
C4_AggregateExactness ==
    \A sol \in Produced :
        LET q == [n \in { sol.items[i][1] : i \in 1..Len(sol.items) } |->
                    SetSum({ i \in 1..Len(sol.items) : sol.items[i][1] = n },
                           [i \in 1..Len(sol.items) |-> sol.items[i][2]])]
        IN  /\ sol.total_calories = TotalOf(q, "calories")
            /\ sol.total_protein = TotalOf(q, "protein")
            /\ sol.total_carbs = TotalOf(q, "carbs")
            /\ sol.total_fat = TotalOf(q, "fat")
            /\ sol.total_fiber = TotalOf(q, "fiber")

\* a result of two items, one of them taken twice
C4_Witness ==
    /\ Returned
    /\ Len(result[1].items) >= 2
    /\ \E i \in 1..Len(result[1].items) : result[1].items[i][2] >= 2

\* C5: an item with more than 20 g protein per serving has quantity 1 in
\* every Solution produced, whatever max_servings is.
C5_HighProteinCap ==
    \A sol \in Produced :
        \A i \in 1..Len(sol.items) :
            Info(args.foods, sol.items[i][1]).protein > 20 => sol.items[i][2] = 1

\* with max_servings >= 2, a result that holds a high-protein item once
\* next to an item taken twice
C5_Witness ==
    /\ Returned
    /\ args.max_servings >= 2
    /\ \E i \in 1..Len(result[1].items) :
          Info(args.foods, result[1].items[i][1]).protein > 20
    /\ \E i \in 1..Len(result[1].items) : result[1].items[i][2] >= 2

\* c and d are the same letter, case ignored
SameLetter(c, d) == lower(<<c>>) = lower(<<d>>)

\* text contains needle, case ignored
ContainsIgnoringCase(needle, text) ==
    \E o \in 0..(Len(text) - Len(needle)) :
        \A k \in 1..Len(needle) : SameLetter(text[o + k], needle[k])

\* an allergen is given when it is not blank
AllergenGiven == strip(args.allergen) # <<>>

\* info is vegan when vegan_only is set, and free of the allergen when one
\* is given (of the allergen as typed and of the allergen trimmed)
Eligible(info) ==
    /\ args.vegan => info.vegan
    /\ AllergenGiven =>
          /\ ~ContainsIgnoringCase(args.allergen, info.allergens)
          /\ ~ContainsIgnoringCase(strip(args.allergen), info.allergens)

\* C6: with vegan_only the filter returns no item that is not vegan, with
\* an allergen it returns no item whose allergen text contains the allergen,
\* case ignored; no such item is in the best Solution or in an alternative.
C6_FilterCorrectness ==
    pc # "idle" =>
        LET kept == _filter_candidates(args.foods, args.vegan, args.allergen,
                                       args.excluded_meats)
        IN  /\ \A i \in 1..Len(kept) : Eligible(kept[i])
            /\ \A sol \in Produced :
                  \A i \in 1..Len(sol.items) :
                      Eligible(Info(args.foods, sol.items[i][1]))

\* a call with an allergen typed in capitals and padded, on a catalog with
\* an item that lists it, that returned a Solution
C6_Witness ==
    /\ Returned
    /\ AllergenGiven
    /\ strip(args.allergen) # args.allergen
    /\ lower(args.allergen) # args.allergen
    /\ \E i \in 1..Len(args.foods) :
          ContainsIgnoringCase(strip(args.allergen), args.foods[i].allergens)

\* the filters remove info: it is not vegan under vegan_only, lists the
\* allergen, or an excluded token is in its name or its allergen text
Removed(info) ==
    \/ args.vegan /\ ~info.vegan
    \/ AllergenGiven /\ ContainsIgnoringCase(strip(args.allergen), info.allergens)
    \/ \E i \in 1..Len(args.excluded_meats) :
          \/ ContainsIgnoringCase(args.excluded_meats[i], info.name)
          \/ ContainsIgnoringCase(args.excluded_meats[i], info.allergens)

EveryItemRemoved ==
    pc # "idle" /\ \A i \in 1..Len(args.foods) : Removed(args.foods[i])

\* C7: when the filters remove every catalog item the call returns None
\* and raises nothing, whatever pairings.json holds; no pass is run.
C7_NoCandidatesReturnsNone ==
    EveryItemRemoved =>
        /\ pc = "done"
        /\ ~raised
        /\ result = <<>>
        /\ tried = <<>>

\* the catalog {ItemA(vegan = false)} under vegan_only, with a pairings.json
\* that holds no mapping
C7_Witness ==
    /\ EveryItemRemoved
    /\ args.foods = <<ItemA>> /\ args.vegan
    /\ pairings_file = "notmapping"

\* sol without the alternatives attached to it
Bare(sol) ==
    [items            |-> sol.items,
     total_calories   |-> sol.total_calories,
     total_protein    |-> sol.total_protein,
     total_fat        |-> sol.total_fat,
     total_carbs      |-> sol.total_carbs,
     total_fiber      |-> sol.total_fiber,
     tolerance_used   |-> sol.tolerance_used,
     score            |-> sol.score,
     within_tolerance |-> sol.within_tolerance]

\* the three passes ran and accepted nothing
NothingAccepted ==
    pc = "done" /\ ~raised /\ Len(tried) = 3 /\ solutions = <<>>

\* C8: when no tier accepts a Solution the call returns the Solution of
\* lowest score of the all-candidates pool, marked not within tolerance;
\* when no admissible assignment exists it returns None.  Nothing is
\* raised on the way unless pairings.json holds no mapping.
C8_FallbackToAllCandidates ==
    /\ (pc = "done" /\ ~raised /\ tried # <<>> /\ solutions = <<>>)
          => Len(tried) = 3
    /\ raised => ~pairs_mapping
    /\ (NothingAccepted /\ GoalsNotNegative) =>
          IF Admissible = {}
          THEN result = <<>> /\ all_candidates = <<>>
          ELSE /\ result # <<>>
               /\ ~result[1].within_tolerance
               /\ \E i \in 1..Len(all_candidates) : all_candidates[i] = Bare(result[1])
               /\ result[1].score.den = ScoreDen
               /\ \A q \in Admissible : result[1].score.num <= ScoreNumOf(q)
               /\ \A i \in 1..Len(all_candidates) :
                     result[1].score.num <= all_candidates[i].score.num

\* a fallback result: nothing within tolerance at any tier, and more than
\* one admissible assignment to choose from
C8_Witness ==
    /\ NothingAccepted
    /\ result # <<>>
    /\ \E q \in Admissible : result[1].score.num < ScoreNumOf(q)

Signatures(sols) ==
    [i \in 1..Len(sols) |-> { sols[i].items[j][1] : j \in 1..Len(sols[i].items) }]

\* C9: no alternative differs from best in total protein by more than
\* protein_window, and best and the alternatives have pairwise different
\* sets of item names.
C9_AlternativeWindow ==
    Returned =>
        LET alts == result[1].alternatives
            sigs == Signatures(<<result[1]>> \o alts)
        IN  /\ \A i \in 1..Len(alts) :
                  Abs(alts[i].total_protein - result[1].total_protein)
                     <= args.protein_window
            /\ \A i, j \in 1..Len(sigs) : i # j => sigs[i] # sigs[j]

\* a result with an alternative, from a pool that also held a Solution
\* outside the protein window
C9_Witness ==
    /\ Returned
    /\ result[1].alternatives # <<>>
    /\ \E i \in 1..Len(solutions) :
          Abs(solutions[i].total_protein - result[1].total_protein)
             > args.protein_window

\* C10: best carries at most max_alternatives alternatives, for every
\* max_alternatives >= 0.
C10_AlternativesBounded ==
    Returned => Len(result[1].alternatives) <= args.max_alternatives

\* C11: two calls with the same catalog, goals, filters and search
\* parameters hand back the same best Solution and the same alternatives
\* in the same order, whatever happened between them; here the second
\* caller entered after the main call had its result.
C11_Determinism ==
    (pc = "done" /\ peer.pc = "done" /\ peer.later /\ peer.args = args)
        => peer.outcome = Outcome

\* C16: a call that runs while other calls run and while the CLI copies a
\* pairing file over pairings.json hands back what it would have handed
\* back had it run alone, with no copy under way.
C16_NoInterference ==
    /\ pc = "done" => Outcome \in { suggest_meal(args, f) : f \in alone }
    /\ peer.pc = "done" =>
          peer.outcome \in { suggest_meal(peer.args, f) : f \in peer.alone }

\* pairings.json was missing, unparsable or no mapping when the call read it
TableUnavailable == alone \subseteq { "missing", "unparsable", "notmapping" }

\* C12: when pairings.json is missing, unparsable or holds something that
\* is no mapping, the call uses the built-in table and raises nothing: it
\* hands back what it hands back with no pairings.json at all.
C12_TableFallback ==
    (pc = "done" /\ TableUnavailable) =>
        /\ ~raised
        /\ Outcome = suggest_meal(args, "missing")

ZeroGoal == pc # "idle" /\ (args.calorie_goal = 0 \/ args.protein_goal = 0)

\* C13: with a goal of 0 the score of every Solution produced is
\* |total_calories - goal_calories| / dc + |total_protein - goal_protein| / dp
\* with 1 for the divisor of a goal that is 0, and the call ends with a
\* Solution or None; the goal raises nothing (the one exception a call can
\* end with is that of a pairings.json that holds no mapping).
C13_ZeroGoalDivisor ==
    ZeroGoal =>
        /\ raised => ~pairs_mapping
        /\ \A sol \in Produced :
              LET dc == IF args.calorie_goal = 0 THEN 1 ELSE args.calorie_goal
                  dp == IF args.protein_goal = 0 THEN 1 ELSE args.protein_goal
              IN  /\ sol.score.den > 0
                  /\ sol.score.num * (dc * dp) =
                        ( Abs(sol.total_calories - args.calorie_goal) * dp
                          + Abs(sol.total_protein - args.protein_goal) * dc )
                        * sol.score.den

\* a Solution returned for a calorie goal of 0, off the goal in calories
C13_Witness ==
    /\ Returned
    /\ args.calorie_goal = 0
    /\ result[1].total_calories > 0
    /\ result[1].score.num > 0

\* C14: the /suggest handler answers a request with a negative calorie or
\* protein goal with an error status and never calls suggest_meal with
\* such a goal.
C14_NegativeGoalRejected ==
    pc # "idle" => (args.calorie_goal >= 0 /\ args.protein_goal >= 0)

\* info names, or lists as an allergen, a token of an excluded category
NamesExcludedToken(info) ==
    LET tokens == expand_excluded_items(args.excluded_meats)
    IN  \E i \in 1..Len(tokens) :
            \/ Contains(tokens[i], lower(info.name))
            \/ Contains(tokens[i], lower(info.allergens))

\* C15: the excluded categories of a call are expanded through
\* EXCLUSION_TOKEN_MAP before matching: with "beef" excluded, no item whose
\* lowercase name or allergen text contains "hamburger", "sausage" or
\* "pepperoni" is in the working set or in a Solution produced.
C15_ExcludedCategoryExpanded ==
    pc # "idle" =>
        /\ \A i \in 1..Len(names) : ~NamesExcludedToken(Info(args.foods, names[i]))
        /\ \A sol \in Produced :
              \A i \in 1..Len(sol.items) :
                  ~NamesExcludedToken(Info(args.foods, sol.items[i][1]))

\* protein / max(calories, 1) of x is greater than that of y; the values
\* of an item count 1/scale kcal and 1/scale g
DenserByMax(x, y) ==
    x.protein * Max(y.calories, Scale(y)) > y.protein * Max(x.calories, Scale(x))

\* the place of kept[i] when kept is sorted by protein / max(calories, 1),
\* densest first, equal densities in the order of kept
PlaceByMax(kept, i) ==
    1 + Cardinality({ j \in 1..Len(kept) :
                        \/ DenserByMax(kept[j], kept[i])
                        \/ ~DenserByMax(kept[i], kept[j]) /\ j < i })

\* C17: the working set is the eligible items sorted by
\* protein / max(calories, 1), densest first, items of equal density in
\* catalog order, cut to the first top_k; every item of a Solution produced
\* is of the working set.
C17_WorkingSetByDensity ==
    pc # "idle" =>
        LET kept == _filter_candidates(args.foods, args.vegan, args.allergen,
                                       args.excluded_meats)
        IN  /\ Len(names) = Min(args.top_k, Len(kept))
            /\ \A i \in 1..Len(kept) :
                  PlaceByMax(kept, i) <= args.top_k
                     => names[PlaceByMax(kept, i)] = kept[i].name
            /\ \A sol \in Produced :
                  \A i \in 1..Len(sol.items) : sol.items[i][1] \in NameSet

\* token is in the combination: a substring of a lowercased name, or
\* within the cutoff of a word of one (words end at spaces and hyphens)
TokenPresent(combo, token) ==
    \E i \in 1..Len(combo) :
        \/ Contains(token, lower(combo[i]))
        \/ \E w \in Words(ReplaceHyphen(lower(combo[i]))) : CloseMatch(w, token)

\* the item of the catalog with this name
ItemNamed(foods, name) ==
    CHOOSE info \in { foods[i] : i \in 1..Len(foods) } : info.name = name

\* the compatibility rules as they are stated: every lead of the table
\* that is a substring of a lowercased name of the combination has a
\* companion present, or an item of the combination that holds the lead
\* has calories >= 400
RulesAccept(foods, table, combo) ==
    \A r \in 1..Len(table) :
        (\E i \in 1..Len(combo) : Contains(table[r][1], lower(combo[i])))
        => \/ \E c \in 1..Len(table[r][2]) : TokenPresent(combo, table[r][2][c])
           \/ \E i \in 1..Len(combo) :
                 /\ Contains(table[r][1], lower(combo[i]))
                 /\ ItemNamed(foods, combo[i]).calories >= 400

\* C18: pairs_ok accepts a combination exactly when every lead of the
\* table that is a substring of a lowercased name of the combination has a
\* companion present (as a substring of a name, or within the cutoff 0.8 of
\* a word of a name), or the lead item has calories >= 400.
C18_PairsOkExact ==
    pc = "paired" => (verdict[1] <=> RulesAccept(args.foods, PAIRS, names))

\* the names of the items of a Solution, in its order
ItemNames(sol) == [i \in 1..Len(sol.items) |-> sol.items[i][1]]

\* the combinations of the working set pairs_ok rejects
Rejected ==
    { T \in SUBSET NameSet :
        /\ T # {} /\ Cardinality(T) <= args.max_items
        /\ ~pairs_ok(args.foods, PAIRS, SelectSeq(names, LAMBDA n : n \in T)) }

\* C19: no serving assignment of a combination pairs_ok rejects is in the
\* accepted pool or in the all-candidates pool, and neither the best
\* Solution (a fallback result included) nor an alternative has an item
\* set pairs_ok rejects.
C19_RejectedDiscarded ==
    (pc \in {"search", "select", "done"} /\ ~raised) =>
        /\ \A i \in 1..Len(all_candidates) :
              /\ pairs_ok(args.foods, PAIRS, ItemNames(all_candidates[i]))
              /\ _solution_signature(all_candidates[i]) \notin Rejected
        /\ \A i \in 1..Len(solutions) :
              /\ pairs_ok(args.foods, PAIRS, ItemNames(solutions[i]))
              /\ _solution_signature(solutions[i]) \notin Rejected
        /\ \A sol \in Produced :
              /\ pairs_ok(args.foods, PAIRS, ItemNames(sol))
              /\ _solution_signature(sol) \notin Rejected

\* a fallback result, while an item of the working set that meets both
\* goals on its own made a combination pairs_ok rejects
C19_Witness ==
    /\ Returned
    /\ ~result[1].within_tolerance
    /\ \E n \in NameSet :
          /\ {n} \in Rejected
          /\ Info(args.foods, n).calories = args.calorie_goal
          /\ Info(args.foods, n).protein = args.protein_goal

\* what deduplication leaves of a pool: one Solution per signature, each
\* of the pool and of the lowest score the pool has for its signature,
\* and no signature of the pool lost
OnePerSignature(pool, kept) ==
    /\ \A i, j \in 1..Len(kept) :
          _solution_signature(kept[i]) = _solution_signature(kept[j]) => i = j
    /\ \A i \in 1..Len(kept) :
          /\ \E k \in 1..Len(pool) : pool[k] = kept[i]
          /\ \A k \in 1..Len(pool) :
                _solution_signature(pool[k]) = _solution_signature(kept[i])
                => ~ScoreLess(pool[k].score, kept[i].score)
    /\ \A k \in 1..Len(pool) :
          \E i \in 1..Len(kept) :
              _solution_signature(kept[i]) = _solution_signature(pool[k])

\* C20: after deduplication each pool holds at most one Solution per
\* signature (the set of item names, serving quantities ignored), and the
\* Solution kept for a signature has the lowest score among the Solutions
\* of that pool with that signature; two assignments of the same items
\* with different serving counts never both survive.
C20_DedupeKeepsLowest ==
    (pc \in {"select", "done"} /\ ~raised) =>
        /\ OnePerSignature(solutions, _dedupe(solutions, <<>>))
        /\ OnePerSignature(all_candidates, _dedupe(all_candidates, <<>>))

\* two assignments of the same items with different serving counts in the
\* all-candidates pool, the later one of the lower score
C20_Witness ==
    /\ pc \in {"select", "done"} /\ ~raised
    /\ \E i, j \in 1..Len(all_candidates) :
          /\ i < j
          /\ _solution_signature(all_candidates[i]) = _solution_signature(all_candidates[j])
          /\ all_candidates[i].items # all_candidates[j].items
          /\ ScoreLess(all_candidates[j].score, all_candidates[i].score)

\* the tokens one entry of a selection stands for: none for an empty
\* entry, the tokens of its category, or itself trimmed and lowercased
TokensOfEntry(entry) ==
    LET key  == lower(strip(entry))
        rows == { r \in 1..Len(EXCLUSION_TOKEN_MAP) : EXCLUSION_TOKEN_MAP[r][1] = key }
    IN  IF key = <<>> THEN <<>>
        ELSE IF rows = {} THEN <<key>>
        ELSE EXCLUSION_TOKEN_MAP[CHOOSE r \in rows : TRUE][2]

\* the expansion of a selection, entry after entry
Expansion(selected) ==
    Concat([i \in 1..Len(selected) |-> TokensOfEntry(selected[i])])

\* the place where token first occurs in tokens
FirstAt(tokens, token) ==
    CHOOSE i \in 1..Len(tokens) :
        tokens[i] = token /\ \A k \in 1..(i - 1) : tokens[k] # token

\* C21: expand_excluded_items returns the tokens of the expansion of its
\* input (a category replaced by its table tokens, an unknown entry kept
\* trimmed and lowercased, an empty entry dropped), each once, in the
\* order of their first occurrence; applied to its own output it returns
\* the same list.
C21_ExpandUniqueOrdered ==
    pc = "expanded" =>
        LET expansion == Expansion(args.selected)
        IN  /\ \A i, j \in 1..Len(names) : names[i] = names[j] => i = j
            /\ { names[i] : i \in 1..Len(names) }
                 = { expansion[i] : i \in 1..Len(expansion) }
            /\ \A i, j \in 1..Len(names) :
                  i < j => FirstAt(expansion, names[i]) < FirstAt(expansion, names[j])
            /\ expand_excluded_items(names) = names

\* a selection with an empty entry, a category typed with capitals and
\* blanks, and a token of that category ahead of it, so that the
\* expansion repeats a token
C21_Witness ==
    /\ pc = "expanded"
    /\ \E i \in 1..Len(args.selected) : strip(args.selected[i]) = <<>>
    /\ \E i, j \in 1..Len(args.selected) :
          /\ i < j
          /\ args.selected[i] = <<"m", "e", "a", "t">>
          /\ args.selected[j] = <<" ", "B", "e", "e", "f", " ">>
    /\ Len(names) < Len(Expansion(args.selected))
    /\ names[1] = <<"m", "e", "a", "t">>
    /\ names[2] = <<"b", "e", "e", "f">>

\* s is the beginning of t
IsPrefix(s, t) == Len(s) <= Len(t) /\ SubSeq(t, 1, Len(s)) = s

\* a Solution without its alternatives list
Detached(sol) == [f \in DOMAIN sol \ {"alternatives"} |-> sol[f]]

\* the Solutions the search created, as it created them
Created(pool) == { pool[i] : i \in 1..Len(pool) }

\* C22: suggest_meal leaves the catalog unchanged: through every step of a
\* call the catalog is the one the caller passed, with every item and
\* every attribute as before and no protein density stored in an item;
\* a Solution stays as it was created, except the returned best, which is
\* a created Solution with the alternatives list attached.
C22_CatalogUnchanged ==
    [][ /\ (pc = "idle" /\ pc' # "idle") =>
              /\ args'.foods \in Catalogs
              /\ \A i \in 1..Len(args'.foods) :
                    "protein_density" \notin DOMAIN args'.foods[i]
        /\ (pc # "idle" /\ pc' # "idle") =>
              /\ args'.foods = args.foods
              /\ IsPrefix(all_candidates, all_candidates')
              /\ IsPrefix(solutions, solutions')
              /\ result' # <<>> =>
                    /\ Detached(result'[1]) \in Created(all_candidates')
                    /\ \A i \in 1..Len(result'[1].alternatives) :
                          result'[1].alternatives[i] \in Created(all_candidates')
      ]_vars

\* a call on a catalog of several ranked items that returned a best with
\* an alternative attached
C22_Witness ==
    /\ Returned
    /\ Len(names) >= 2
    /\ Len(result[1].alternatives) >= 1
    /\ Len(all_candidates) >= 2

\* the binomial coefficient C(n, r)
RECURSIVE Choose(_, _)
Choose(n, r) ==
    IF r = 0 THEN 1
    ELSE IF n < r THEN 0
    ELSE Choose(n - 1, r - 1) + Choose(n - 1, r)

RECURSIVE Power(_, _)
Power(b, e) == IF e = 0 THEN 1 ELSE b * Power(b, e - 1)

\* the sum over r = 1..max_items of C(top_k, r) * ceiling^r
RECURSIVE SearchBound(_, _, _, _)
SearchBound(r, max_items, top_k, ceiling) ==
    IF r > max_items THEN 0
    ELSE Choose(top_k, r) * Power(ceiling, r)
         + SearchBound(r + 1, max_items, top_k, ceiling)

\* the search parameters of the call are not negative
ParametersNotNegative ==
    args.top_k >= 0 /\ args.max_items >= 0 /\ args.max_servings >= 0

\* the passes are at most three
AtMostThreePasses == Len(tried) <= 3 /\ tier <= 3

WellFormed(sol) ==
    /\ \A i \in 1..Len(sol.items) :
          sol.items[i][2] \in Nat /\ sol.items[i][2] >= 1
    /\ \A i, j \in 1..Len(sol.items) :
          sol.items[i][1] = sol.items[j][1] => i = j
    /\ 1 <= Len(sol.items)
    /\ Len(sol.items) <= args.max_items

C25_AlternativesOrdered ==
    Returned =>
        LET sol  == result[1]
            alts == result[1].alternatives
        IN  /\ \A i, j \in 1..Len(alts) :
                  i < j => ~ScoreLess(alts[j].score, alts[i].score)
            /\ \A i \in 1..Len(alts) : ~ScoreLess(alts[i].score, sol.score)
            /\ \A i \in 1..Len(alts) :
                  /\ alts[i].within_tolerance = sol.within_tolerance
                  /\ sol.within_tolerance
                       => alts[i].tolerance_used = sol.tolerance_used

\* a best within tolerance at a relaxed tier with two alternatives of
\* different scores
C25_Witness ==
    /\ Returned
    /\ result[1].within_tolerance
    /\ Len(tried) >= 2
    /\ Len(result[1].alternatives) >= 2
    /\ ScoreLess(result[1].alternatives[1].score, result[1].alternatives[2].score)

\* the lead of rule r is in a name of the combination, and some name that
\* holds the lead holds a companion of the rule as well
OwnCompanion(r) ==
    \E i \in 1..Len(names) :
        /\ Contains(PAIRS[r][1], lower(names[i]))
        /\ \E c \in 1..Len(PAIRS[r][2]) : Contains(PAIRS[r][2][c], lower(names[i]))

\* C26: a rule is satisfied by the lead item's own name: a combination in
\* which every lead that is matched has a companion token in an item name
\* that holds the lead is accepted by pairs_ok, whatever its calories, so
\* "Chicken Salad" alone is admissible under chicken -> salad.
C26_OwnNameSatisfiesRule ==
    pc = "paired" =>
        ( ( /\ \E r \in 1..Len(PAIRS) : OwnCompanion(r)
            /\ \A r \in 1..Len(PAIRS) :
                  (\E i \in 1..Len(names) : Contains(PAIRS[r][1], lower(names[i])))
                  => OwnCompanion(r) )
          => verdict[1] )

\* "Chicken Salad" (300 kcal) alone under the table chicken -> salad,
\* accepted
C26_Witness ==
    /\ pc = "paired"
    /\ PAIRS = ChickenSaladPairs
    /\ names = << ChickenSalad.name >>
    /\ ChickenSalad.calories < SubstantialCalories
    /\ verdict = << TRUE >>
====
